---- MODULE Spec2Model ----
(***************************************************************************)
(* Settlement core of the peer-to-peer energy marketplace                  *)
(* (backend/app/services.py, models.py, db.py).                            *)
(*                                                                         *)
(* The database (users, meter_samples, offers, trades) is the shared       *)
(* state.  Every caller works through a SQLAlchemy Session (db.py:24-30:   *)
(* autoflush=False, expire_on_commit=False): an identity map of the rows   *)
(* it has loaded, each with the value loaded and the value the Python      *)
(* object holds now.  db.get() answers from the identity map when the row  *)
(* is there; db.commit() writes the attributes that differ from what was   *)
(* loaded, as absolute values, and inserts the new rows.                   *)
(*                                                                         *)
(* Energy (kWh) and money (EUR) are fixed-point integers: one unit is      *)
(* Ticks ticks, and round(x, 4) keeps multiples of Step ticks.             *)
(***************************************************************************)
EXTENDS Integers, Sequences, FiniteSets, TLC

(* ------------------------------------------------------------------ *)
(* Numbers                                                            *)
(* ------------------------------------------------------------------ *)

\* round(x, 4): the number of decimals every stored amount is rounded to.
Prec == 4

\* Ticks per 1 kWh / 1 EUR: a quarter of the rounding step 10^-Prec.
Ticks == 4 * (10 ^ Prec)

\* Ticks per 0.0001 (the rounding step).
Step == Ticks \div (10 ^ Prec)

\* The 1e-9 tolerance of the comparisons, in ticks (below one tick).
Eps == 0

\* n thousandths of a unit, in ticks.
Milli(n) == n * (Ticks \div 1000)

Min(a, b) == IF a <= b THEN a ELSE b

Max(a, b) == IF a >= b THEN a ELSE b

\* n / d rounded to the nearest integer, ties to the even one (Python round).
RoundDiv(n, d) ==
    LET q == n \div d
        r == n % d
    IN  IF 2 * r < d THEN q
        ELSE IF 2 * r > d THEN q + 1
        ELSE IF q % 2 = 0 THEN q ELSE q + 1

\* round(x, 4) of an amount in ticks.
Round4(x) == Step * RoundDiv(x, Step)

(* ------------------------------------------------------------------ *)
(* Bounds and inputs                                                  *)
(* ------------------------------------------------------------------ *)

MaxOffers == 2
MaxTrades == 2
MaxSamples == 1
MaxFunds == 1
MaxTime == 1

\* Seconds between two looks at the clock: 13 hours, more than the window.
ClockStep == 13 * 3600

\* Callers at work at the same time, each with its own session.
Sessions == {1, 2}

\* Accounts registered by create_user (balance 0.0) before the run starts.
UserIds == 1 .. 3

\* An id no account has.
NoUser == 0

RoleOf == [u \in UserIds |->
             IF u = 1 THEN "producer" ELSE IF u = 2 THEN "consumer" ELSE "provider"]

\* The accounts the calls of the run name (NoUser: an account that is missing).
Funded == {2, NoUser}

Metered == {1, NoUser}

\* The accounts readings arrive for when every household is metered: the
\* simulator writes readings for all accounts that are not providers.
Simulated == {u \in UserIds : RoleOf[u] # "provider"}

MeteredIn(m) == IF m = "meter" THEN Metered \cup Simulated ELSE Metered

\* How far ahead of the clock a reading may be stamped, in seconds: the
\* caller of record_meter_sample chooses ts.
StampsAhead(m) == IF m = "meter" THEN {0, 3600} ELSE {0}

Sellers == {1, 2, NoUser}

Buyers == {1, 2, NoUser}

\* Requested energy of create_offer / accept_offer calls.
KwhInputs == {0, Milli(1000), Milli(1500) - 1}

\* Unit prices offered.
PriceInputs == {Milli(100) + 1}

\* Amounts of fund_user calls.
AmountInputs == {0, Milli(120)}

\* (production, consumption) pairs of meter readings.
ReadingInputs == {<<Milli(4500) + 1, Milli(2000)>>}

\* _SURGE = None: no hour of the day.
NoSurge == 24

\* Threads that ask for prices and listings at the same time.
Readers == {1, 2}

\* The hours of the day the pricing calls ask about (ts = hour * 3600).
HourInputs == {17, 18}

\* A thread with no pricing or listing call in flight.
Waiting == [pc |-> "waiting", op |-> "none", hour |-> 0, price |-> 0]

\* settings.PROVIDER_PRICE_SCHEDULE (config.py:42-47):
\* (start_hour, end_hour, multiplier)
PROVIDER_PRICE_SCHEDULE ==
    << <<0, 6, Milli(900)>>, <<6, 17, Milli(1000)>>,
       <<17, 22, Milli(1200)>>, <<22, 24, Milli(1000)>> >>

\* Schedules a deployment may configure: the one of config.py, a whole-day
\* interval declared before the evening one, two evening intervals that
\* share hour 18, and three intervals that all hold hour 18.
Schedules ==
    {PROVIDER_PRICE_SCHEDULE,
     << <<0, 24, Milli(1000)>>, <<17, 22, Milli(1200)>> >>,
     << <<17, 19, Milli(1200)>>, <<18, 22, Milli(900)>> >>,
     << <<0, 24, Milli(1000)>>, <<17, 22, Milli(1200)>>, <<18, 19, Milli(900)>> >>}

\* MeterSimulator threads the process creates, in the order of creation.
MaxThreads == 2
SimThreads == 1 .. MaxThreads

\* _SIMULATOR = None
NoThread == 0

\* start_simulator calls.
MaxStarts == 3

\* Ticks one MeterSimulator thread runs.
MaxTicks == 1

\* The readings random.uniform and round(.., 3) give the simulator.
SimReadings == {<<Milli(2500), Milli(1000)>>}

\* settings.SIMULATION_ENABLED, switched on by the deployment.
SIMULATION_ENABLED == TRUE

\* A MeterSimulator not created yet.
Unborn == [pc |-> "unborn", stop |-> FALSE, todo |-> <<>>, ts |-> 0, ticks |-> 0]

VARIABLES
    users,      \* users table: id -> [role, balance]
    samples,    \* meter_samples table: sequence of rows
    offers,     \* offers table: sequence of rows, id = index
    trades,     \* trades table: sequence of rows, id = index
    now,        \* time.time(), seconds
    sess,       \* per session: the identity map
    call,       \* per session: the call in flight and its locals
    last,       \* the call that ended in the latest step, if one did
    nFunds,     \* fund_user calls that passed validation so far
    funded,     \* per account: the amounts of the fund_user calls committed
    mode,       \* how callers use sessions: "requests", "serial", "caller", "meter"
    SURGE,      \* the module global _SURGE: the surge hour, NoSurge while None
    reader,     \* per thread: the pricing or listing call in flight
    quoted,     \* per hour asked: the prices provider_price_eur_per_kwh_now returned
    listed,     \* the lists list_market_items returned
    schedule,   \* settings.PROVIDER_PRICE_SCHEDULE as configured
    SIMULATOR,  \* the module global _SIMULATOR: a thread, NoThread while None
    thread,     \* per MeterSimulator thread: where it is in run, its stop event
    starts      \* start_simulator calls made so far

vars == <<users, samples, offers, trades, now, sess, call, last, nFunds, funded, mode,
          SURGE, reader, quoted, listed, schedule, SIMULATOR, thread, starts>>

db == <<users, samples, offers, trades>>


(* ------------------------------------------------------------------ *)
(* Enumerations (models.py)                                           *)
(* ------------------------------------------------------------------ *)

UserRole == {"provider", "producer", "consumer", "both"}

OfferStatus == {"active", "closed", "cancelled"}

\* The member accept_offer names for a fully filled offer: OfferStatus.completed.
FilledStatus == "completed"

(* ------------------------------------------------------------------ *)
(* Session: identity map, pending changes, commit (db.py)             *)
(* ------------------------------------------------------------------ *)

EmptyMap == [x \in {} |-> 0]

\* SessionLocal(): a session that has loaded nothing.
SessionLocal == [users |-> EmptyMap, offers |-> EmptyMap]

Put(f, k, v) == [x \in (DOMAIN f) \cup {k} |-> IF x = k THEN v ELSE f[x]]

\* db.get(User, id) for an existing id: the cached object when there is one,
\* else the row as it is in the database now.
GetUser(m, id) ==
    IF id \in DOMAIN m.users THEN m
    ELSE [m EXCEPT !.users =
            Put(@, id, [old |-> users[id].balance, cur |-> users[id].balance])]

OfferAttrs(row) == [remaining |-> row.remaining, status |-> row.status]

\* db.get(Offer, id) for an existing id.
GetOffer(m, id) ==
    IF id \in DOMAIN m.offers THEN m
    ELSE [m EXCEPT !.offers =
            Put(@, id, [old |-> OfferAttrs(offers[id]), cur |-> OfferAttrs(offers[id])])]

\* The new Offer object stays in the session after db.add / db.refresh.
GetOfferRow(m, id, row) ==
    [m EXCEPT !.offers = Put(@, id, [old |-> OfferAttrs(row), cur |-> OfferAttrs(row)])]

\* The users table after the session's flush: UPDATE of every balance that
\* differs from the value loaded, with the value the object holds.
FlushUsers(m) ==
    [u \in UserIds |->
        IF u \in DOMAIN m.users /\ m.users[u].cur # m.users[u].old
        THEN [users[u] EXCEPT !.balance = m.users[u].cur]
        ELSE users[u]]

\* The offers table after the session's flush (attribute by attribute).
FlushOffers(m) ==
    [i \in 1 .. Len(offers) |->
        IF i \in DOMAIN m.offers
        THEN [offers[i] EXCEPT
                !.remaining = IF m.offers[i].cur.remaining # m.offers[i].old.remaining
                              THEN m.offers[i].cur.remaining ELSE @,
                !.status = IF m.offers[i].cur.status # m.offers[i].old.status
                           THEN m.offers[i].cur.status ELSE @]
        ELSE offers[i]]

\* The session after commit: nothing pending, objects kept (expire_on_commit=False).
Committed(m) ==
    [users  |-> [u \in DOMAIN m.users |-> [old |-> m.users[u].cur, cur |-> m.users[u].cur]],
     offers |-> [i \in DOMAIN m.offers |-> [old |-> m.offers[i].cur, cur |-> m.offers[i].cur]]]

\* Objects of the session changed and not yet written.
DirtyUsers(m) == {u \in DOMAIN m.users : m.users[u].cur # m.users[u].old}

DirtyOffers(m) == {i \in DOMAIN m.offers : m.offers[i].cur # m.offers[i].old}

(* ------------------------------------------------------------------ *)
(* Calls                                                              *)
(* ------------------------------------------------------------------ *)

Idle == [pc |-> "idle", user |-> 0, offer |-> 0, kwh |-> 0, price |-> 0,
         qty |-> 0, cost |-> 0, stored |-> 0, ts |-> 0, amount |-> 0]

NoCall == [s |-> 0, op |-> "none", out |-> "none"]

Ended(s, op, out) == [s |-> s, op |-> op, out |-> out]

\* get_db's finally: db.close() when the call is over.  A session with
\* nothing pending is closed in the step that ends its call (closing it
\* changes nothing another caller can see); a session a call left with
\* pending changes stays as it is until Close or the caller's next call.
Release(m) ==
    IF DirtyUsers(m) = {} /\ DirtyOffers(m) = {} THEN SessionLocal ELSE m

\* The call of session s ends by raising: nothing is written.
Raise(s, op, out, m) ==
    /\ sess' = [sess EXCEPT ![s] = Release(m)]
    /\ call' = [call EXCEPT ![s] = Idle]
    /\ last' = Ended(s, op, out)
    /\ UNCHANGED <<users, samples, offers, trades, now, nFunds, funded, mode, SURGE, reader, quoted, listed, schedule, SIMULATOR, thread, starts>>

\* Session s may begin a call: it has none in flight; under "serial" no
\* other call is in flight either; the session is a fresh one of get_db
\* unless the caller keeps its session ("caller").
MayBegin(s) ==
    /\ call[s].pc = "idle"
    /\ mode \in {"serial", "meter"} => \A t \in Sessions : call[t].pc = "idle"
    /\ mode # "caller" => sess[s] = SessionLocal

InFlight(pcs) == Cardinality({s \in Sessions : call[s].pc \in pcs})

InitDb ==
    /\ users = [u \in UserIds |-> [role |-> RoleOf[u], balance |-> 0]]
    /\ samples = <<>>
    /\ offers = <<>>
    /\ trades = <<>>
    /\ now = 0
    /\ sess = [s \in Sessions |-> SessionLocal]
    /\ call = [s \in Sessions |-> Idle]
    /\ last = NoCall
    /\ nFunds = 0
    /\ funded = [u \in UserIds |-> 0]
    /\ SURGE = NoSurge
    /\ reader = [r \in Readers |-> Waiting]
    /\ quoted = [h \in HourInputs |-> {}]
    /\ listed = {}
    /\ schedule = PROVIDER_PRICE_SCHEDULE
    /\ SIMULATOR = NoThread
    /\ thread = [t \in SimThreads |-> Unborn]
    /\ starts = 0

\* The deployed service: one fresh session per request, requests in parallel.
Init == InitDb /\ mode = "requests"

\* One request at a time.
InitSerial == InitDb /\ mode = "serial"

\* Callers that go on using a session after a call raised.
InitCaller == InitDb /\ mode = "caller"

\* One request at a time, with readings for every household and readings
\* stamped ahead of the clock.
InitMeter == InitDb /\ mode = "meter"

(* ---- fund_user (services.py:139-147) ---- *)

FundUserStart(s, user_id, amount) ==
    /\ MayBegin(s)
    /\ IF amount <= 0
       THEN Raise(s, "fund_user", "Amount must be positive", sess[s])
       ELSE IF user_id \notin UserIds
       THEN Raise(s, "fund_user", "User not found", sess[s])
       ELSE /\ nFunds < MaxFunds
            /\ LET m == GetUser(sess[s], user_id)
               IN  sess' = [sess EXCEPT ![s] =
                       [m EXCEPT !.users[user_id].cur = Round4(@ + amount)]]
            /\ call' = [call EXCEPT ![s] = [Idle EXCEPT !.pc = "fund_commit",
                                                       !.user = user_id,
                                                       !.amount = amount]]
            /\ last' = NoCall
            /\ nFunds' = nFunds + 1
            /\ UNCHANGED <<users, samples, offers, trades, now, funded, mode, SURGE, reader, quoted, listed, schedule, SIMULATOR, thread, starts>>

FundUserCommit(s) ==
    /\ call[s].pc = "fund_commit"
    /\ users' = FlushUsers(sess[s])
    /\ offers' = FlushOffers(sess[s])
    /\ sess' = [sess EXCEPT ![s] = Release(Committed(@))]
    /\ call' = [call EXCEPT ![s] = Idle]
    /\ last' = Ended(s, "fund_user", "ok")
    /\ funded' = [funded EXCEPT ![call[s].user] = @ + call[s].amount]
    /\ UNCHANGED <<samples, trades, now, nFunds, mode, SURGE, reader, quoted, listed, schedule, SIMULATOR, thread, starts>>

(* ---- record_meter_sample (services.py:154-163) ---- *)

RecordMeterSample(s, user_id, prod_kwh, cons_kwh, ts) ==
    /\ MayBegin(s)
    /\ IF prod_kwh < 0 \/ cons_kwh < 0
       THEN Raise(s, "record_meter_sample", "Energy values must be non-negative", sess[s])
       ELSE IF user_id \notin UserIds
       THEN Raise(s, "record_meter_sample", "User not found", sess[s])
       ELSE /\ Len(samples) < MaxSamples
            /\ users' = FlushUsers(sess[s])
            /\ offers' = FlushOffers(sess[s])
            /\ samples' = Append(samples, [user |-> user_id, ts |-> ts,
                                           prod |-> prod_kwh, cons |-> cons_kwh])
            /\ sess' = [sess EXCEPT ![s] = Release(Committed(GetUser(@, user_id)))]
            /\ call' = [call EXCEPT ![s] = Idle]
            /\ last' = Ended(s, "record_meter_sample", "ok")
            /\ UNCHANGED <<trades, now, nFunds, funded, mode, SURGE, reader, quoted, listed, schedule, SIMULATOR, thread, starts>>

(* ---- get_db (db.py:33-50) and the clock ---- *)

\* finally: db.close() -- the request is over, the session forgets its objects.
Close(s) ==
    /\ call[s].pc = "idle"
    /\ sess[s] # SessionLocal
    /\ sess' = [sess EXCEPT ![s] = SessionLocal]
    /\ last' = NoCall
    /\ UNCHANGED <<users, samples, offers, trades, now, call, nFunds, funded, mode, SURGE, reader, quoted, listed, schedule, SIMULATOR, thread, starts>>

Tick ==
    /\ now < MaxTime * ClockStep
    /\ now' = now + ClockStep
    /\ last' = NoCall
    /\ UNCHANGED <<users, samples, offers, trades, sess, call, nFunds, funded, mode, SURGE, reader, quoted, listed, schedule, SIMULATOR, thread, starts>>

(* ------------------------------------------------------------------ *)
(* Surplus ledger (services.py:183-244)                               *)
(* ------------------------------------------------------------------ *)

RECURSIVE SumSeq(_)
SumSeq(q) == IF q = <<>> THEN 0 ELSE Head(q) + SumSeq(Tail(q))

RECURSIVE SelectIdx(_, _, _)
\* The indexes i >= from of q, ascending, with keep[i].
SelectIdx(q, keep, from) ==
    IF from > Len(q) THEN <<>>
    ELSE IF keep[from] THEN <<from>> \o SelectIdx(q, keep, from + 1)
    ELSE SelectIdx(q, keep, from + 1)

\* list_meter_series: the rows of user_id with ts >= since_ts.
list_meter_series(user_id, since_ts) ==
    SelectIdx(samples,
              [i \in 1 .. Len(samples) |->
                  samples[i].user = user_id /\ samples[i].ts >= since_ts], 1)

\* compute_surplus_last_hours at clock time t.
compute_surplus_last_hours(user_id, hours, t) ==
    LET rows == list_meter_series(user_id, t - hours * 3600)
    IN  Round4(SumSeq([k \in 1 .. Len(rows) |->
                 Max(0, samples[rows[k]].prod - samples[rows[k]].cons)]))

\* compute_reserved_surplus_kwh: SUM(kwh_remaining) of the seller's active
\* rows of the offers table.
compute_reserved_surplus_kwh(user_id) ==
    Round4(SumSeq([i \in 1 .. Len(offers) |->
             IF offers[i].seller = user_id /\ offers[i].status = "active"
             THEN offers[i].remaining ELSE 0]))

\* The window of create_offer and get_user_status, in hours.
WindowHours == 12

\* An availability that forgets what the seller's active offers reserve.
AvailableIgnoringReserved(stored_12h, reserved) == Round4(stored_12h)

\* available = round(stored_12h - reserved, 4)
Available(stored_12h, reserved) == Round4(stored_12h - reserved)

\* not (kwh > available + 1e-9)
Admits(kwh, available) == ~(kwh > available + Eps)

(* ---- create_offer (services.py:252-279) ---- *)

\* create_offer without the check of the seller's role.
CreateOfferStartAnyRole(s, seller_id, kwh, price_eur_per_kwh) ==
    /\ MayBegin(s)
    /\ IF seller_id \notin UserIds
       THEN Raise(s, "create_offer", "Seller not found", sess[s])
       ELSE IF kwh <= 0 \/ price_eur_per_kwh <= 0
       THEN Raise(s, "create_offer", "kWh and price must be positive",
                  GetUser(sess[s], seller_id))
       ELSE /\ Len(offers) + InFlight({"create_reserved", "create_commit"}) < MaxOffers
            /\ sess' = [sess EXCEPT ![s] = GetUser(@, seller_id)]
            /\ call' = [call EXCEPT ![s] =
                    [Idle EXCEPT !.pc = "create_reserved", !.user = seller_id,
                                 !.kwh = kwh, !.price = price_eur_per_kwh,
                                 !.stored = compute_surplus_last_hours(seller_id, WindowHours, now)]]
            /\ last' = NoCall
            /\ UNCHANGED <<users, samples, offers, trades, now, nFunds, funded, mode, SURGE, reader, quoted, listed, schedule, SIMULATOR, thread, starts>>

CreateOfferStart(s, seller_id, kwh, price_eur_per_kwh) ==
    /\ MayBegin(s)
    /\ IF seller_id \notin UserIds
       THEN Raise(s, "create_offer", "Seller not found", sess[s])
       ELSE IF users[seller_id].role \notin {"producer", "both"}
       THEN Raise(s, "create_offer", "Only producers or both can create offers",
                  GetUser(sess[s], seller_id))
       ELSE IF kwh <= 0 \/ price_eur_per_kwh <= 0
       THEN Raise(s, "create_offer", "kWh and price must be positive",
                  GetUser(sess[s], seller_id))
       ELSE /\ Len(offers) + InFlight({"create_reserved", "create_commit"}) < MaxOffers
            /\ sess' = [sess EXCEPT ![s] = GetUser(@, seller_id)]
            /\ call' = [call EXCEPT ![s] =
                    [Idle EXCEPT !.pc = "create_reserved", !.user = seller_id,
                                 !.kwh = kwh, !.price = price_eur_per_kwh,
                                 !.stored = compute_surplus_last_hours(seller_id, WindowHours, now)]]
            /\ last' = NoCall
            /\ UNCHANGED <<users, samples, offers, trades, now, nFunds, funded, mode, SURGE, reader, quoted, listed, schedule, SIMULATOR, thread, starts>>

CreateOfferCheck(s) ==
    /\ call[s].pc = "create_reserved"
    /\ LET c == call[s]
           available == Available(c.stored, compute_reserved_surplus_kwh(c.user))
       IN  IF ~Admits(c.kwh, available)
           THEN Raise(s, "create_offer", "Not enough surplus to sell", sess[s])
           ELSE /\ call' = [call EXCEPT ![s] = [c EXCEPT !.pc = "create_commit", !.ts = now]]
                /\ last' = NoCall
                /\ UNCHANGED <<users, samples, offers, trades, now, sess, nFunds, funded, mode, SURGE, reader, quoted, listed, schedule, SIMULATOR, thread, starts>>

\* The Offer row create_offer builds.
NewOffer(c) ==
    [seller |-> c.user, total |-> Round4(c.kwh), remaining |-> Round4(c.kwh),
     price |-> Round4(c.price), status |-> "active", created |-> c.ts]

\* The CHECK constraints of the offers table (models.py:129-132).
OfferChecks(row) == row.total > 0 /\ row.remaining >= 0 /\ row.price > 0

CreateOfferCommit(s) ==
    /\ call[s].pc = "create_commit"
    /\ LET row == NewOffer(call[s])
       IN  IF ~OfferChecks(row)
           THEN Raise(s, "create_offer", "IntegrityError", sess[s])
           ELSE /\ users' = FlushUsers(sess[s])
                /\ offers' = Append(FlushOffers(sess[s]), row)
                /\ sess' = [sess EXCEPT ![s] =
                        Release(GetOfferRow(Committed(@), Len(offers) + 1, row))]
                /\ call' = [call EXCEPT ![s] = Idle]
                /\ last' = Ended(s, "create_offer", "ok")
                /\ UNCHANGED <<samples, trades, now, nFunds, funded, mode, SURGE, reader, quoted, listed, schedule, SIMULATOR, thread, starts>>

(* ---- accept_offer (services.py:331-382) ---- *)

\* qty = min(kwh, offer.kwh_remaining)
FillQty(kwh, kwh_remaining) == Min(kwh, kwh_remaining)

\* cost = round(qty * offer.price_eur_per_kwh, 4)
Cost(qty, price_eur_per_kwh) == Step * RoundDiv(qty * price_eur_per_kwh, Ticks * Step)

\* A funds check that lets every buyer through.
CanAffordAnything(balance_eur, cost) == TRUE

\* not (buyer.balance_eur + 1e-9 < cost)
CanAfford(balance_eur, cost) == ~(balance_eur + Eps < cost)

\* buyer.balance_eur = round(buyer.balance_eur - cost, 4)
Debit(balance_eur, cost) == Round4(balance_eur - cost)

\* A credit that keeps back the platform fee of 2 % (config.py:17).
CreditLessFee(balance_eur, cost) == Round4(balance_eur + cost - RoundDiv(cost * 2, 100))

\* seller.balance_eur = round(seller.balance_eur + cost, 4)
Credit(balance_eur, cost) == Round4(balance_eur + cost)

\* A decrement with the sign of the fill slipped.
DecrementSignSlip(kwh_remaining, qty) == Round4(kwh_remaining + qty)

\* offer.kwh_remaining = round(offer.kwh_remaining - qty, 4)
Decrement(kwh_remaining, qty) == Round4(kwh_remaining - qty)

\* if kwh <= 0: raise; buyer = db.get(User, buyer_id); if not buyer: raise
AcceptOfferStart(s, buyer_id, offer_id, kwh) ==
    /\ MayBegin(s)
    /\ IF kwh <= 0
       THEN Raise(s, "accept_offer", "kWh must be positive", sess[s])
       ELSE IF buyer_id \notin UserIds
       THEN Raise(s, "accept_offer", "Buyer not found", sess[s])
       ELSE /\ Len(trades) + InFlight({"accept_offer", "accept_seller", "accept_commit"})
                 < MaxTrades
            /\ sess' = [sess EXCEPT ![s] = GetUser(@, buyer_id)]
            /\ call' = [call EXCEPT ![s] =
                    [Idle EXCEPT !.pc = "accept_offer", !.user = buyer_id,
                                 !.offer = offer_id, !.kwh = kwh]]
            /\ last' = NoCall
            /\ UNCHANGED <<users, samples, offers, trades, now, nFunds, funded, mode, SURGE, reader, quoted, listed, schedule, SIMULATOR, thread, starts>>

\* The checks without the one that refuses the seller as buyer.
AcceptOfferCheckSelfTrade(s) ==
    /\ call[s].pc = "accept_offer"
    /\ LET c == call[s]
       IN  IF c.offer \notin 1 .. Len(offers)
           THEN Raise(s, "accept_offer", "Offer not available", sess[s])
           ELSE
           LET m     == GetOffer(sess[s], c.offer)
               offer == m.offers[c.offer].cur
               buyer == m.users[c.user]
               qty   == FillQty(c.kwh, offer.remaining)
               cost  == Cost(qty, offers[c.offer].price)
           IN  IF offer.status # "active"
               THEN Raise(s, "accept_offer", "Offer not available", m)
               ELSE IF qty <= 0
               THEN Raise(s, "accept_offer", "No remaining kWh in this offer", m)
               ELSE IF ~CanAfford(buyer.cur, cost)
               THEN Raise(s, "accept_offer", "Insufficient funds", m)
               ELSE /\ sess' = [sess EXCEPT ![s] =
                            [m EXCEPT !.users[c.user].cur = Debit(@, cost)]]
                    /\ call' = [call EXCEPT ![s] =
                            [c EXCEPT !.pc = "accept_seller", !.qty = qty, !.cost = cost]]
                    /\ last' = NoCall
                    /\ UNCHANGED <<users, samples, offers, trades, now, nFunds, funded, mode, SURGE, reader, quoted, listed, schedule, SIMULATOR, thread, starts>>

\* The checks with the buyer debited before the funds check instead of after.
AcceptOfferCheckDebitFirst(s) ==
    /\ call[s].pc = "accept_offer"
    /\ LET c == call[s]
       IN  IF c.offer \notin 1 .. Len(offers)
           THEN Raise(s, "accept_offer", "Offer not available", sess[s])
           ELSE
           LET m     == GetOffer(sess[s], c.offer)
               offer == m.offers[c.offer].cur
               buyer == m.users[c.user]
               qty   == FillQty(c.kwh, offer.remaining)
               cost  == Cost(qty, offers[c.offer].price)
               paid  == [m EXCEPT !.users[c.user].cur = Debit(@, cost)]
           IN  IF offer.status # "active"
               THEN Raise(s, "accept_offer", "Offer not available", m)
               ELSE IF offers[c.offer].seller = c.user
               THEN Raise(s, "accept_offer", "Cannot buy your own offer", m)
               ELSE IF qty <= 0
               THEN Raise(s, "accept_offer", "No remaining kWh in this offer", m)
               ELSE IF ~CanAfford(buyer.cur, cost)
               THEN Raise(s, "accept_offer", "Insufficient funds", paid)
               ELSE /\ sess' = [sess EXCEPT ![s] = paid]
                    /\ call' = [call EXCEPT ![s] =
                            [c EXCEPT !.pc = "accept_seller", !.qty = qty, !.cost = cost]]
                    /\ last' = NoCall
                    /\ UNCHANGED <<users, samples, offers, trades, now, nFunds, funded, mode, SURGE, reader, quoted, listed, schedule, SIMULATOR, thread, starts>>

\* offer = db.get(Offer, offer_id) and the checks up to the buyer's debit.
AcceptOfferCheck(s) ==
    /\ call[s].pc = "accept_offer"
    /\ LET c == call[s]
       IN  IF c.offer \notin 1 .. Len(offers)
           THEN Raise(s, "accept_offer", "Offer not available", sess[s])
           ELSE
           LET m     == GetOffer(sess[s], c.offer)
               offer == m.offers[c.offer].cur
               buyer == m.users[c.user]
               qty   == FillQty(c.kwh, offer.remaining)
               cost  == Cost(qty, offers[c.offer].price)
           IN  IF offer.status # "active"
               THEN Raise(s, "accept_offer", "Offer not available", m)
               ELSE IF offers[c.offer].seller = c.user
               THEN Raise(s, "accept_offer", "Cannot buy your own offer", m)
               ELSE IF qty <= 0
               THEN Raise(s, "accept_offer", "No remaining kWh in this offer", m)
               ELSE IF ~CanAfford(buyer.cur, cost)
               THEN Raise(s, "accept_offer", "Insufficient funds", m)
               ELSE /\ sess' = [sess EXCEPT ![s] =
                            [m EXCEPT !.users[c.user].cur = Debit(@, cost)]]
                    /\ call' = [call EXCEPT ![s] =
                            [c EXCEPT !.pc = "accept_seller", !.qty = qty, !.cost = cost]]
                    /\ last' = NoCall
                    /\ UNCHANGED <<users, samples, offers, trades, now, nFunds, funded, mode, SURGE, reader, quoted, listed, schedule, SIMULATOR, thread, starts>>

\* seller = db.get(User, offer.seller_id), the credit, the decrement, the
\* status of a filled offer, and the Trade object.
AcceptOfferSettle(s) ==
    /\ call[s].pc = "accept_seller"
    /\ LET c      == call[s]
           seller == offers[c.offer].seller
           m0     == GetUser(sess[s], seller)
           m1     == [m0 EXCEPT !.users[seller].cur = Credit(@, c.cost),
                                !.offers[c.offer].cur.remaining = Decrement(@, c.qty)]
       IN  IF m1.offers[c.offer].cur.remaining <= Eps
           THEN LET m2 == [m1 EXCEPT !.offers[c.offer].cur.remaining = 0]
                IN  IF FilledStatus \in OfferStatus
                    THEN /\ sess' = [sess EXCEPT ![s] =
                                 [m2 EXCEPT !.offers[c.offer].cur.status = FilledStatus]]
                         /\ call' = [call EXCEPT ![s] =
                                 [c EXCEPT !.pc = "accept_commit", !.ts = now]]
                         /\ last' = NoCall
                         /\ UNCHANGED <<users, samples, offers, trades, now, nFunds, funded, mode, SURGE, reader, quoted, listed, schedule, SIMULATOR, thread, starts>>
                    ELSE Raise(s, "accept_offer", "AttributeError", m2)
           ELSE /\ sess' = [sess EXCEPT ![s] = m1]
                /\ call' = [call EXCEPT ![s] = [c EXCEPT !.pc = "accept_commit", !.ts = now]]
                /\ last' = NoCall
                /\ UNCHANGED <<users, samples, offers, trades, now, nFunds, funded, mode, SURGE, reader, quoted, listed, schedule, SIMULATOR, thread, starts>>

\* The Trade row accept_offer builds.
NewTrade(c) ==
    [buyer |-> c.user, offer |-> c.offer, kwh |-> c.qty, total |-> c.cost, ts |-> c.ts]

\* A commit that leaves the Trade out of the session.
AcceptOfferCommitNoTrade(s) ==
    /\ call[s].pc = "accept_commit"
    /\ users' = FlushUsers(sess[s])
    /\ offers' = FlushOffers(sess[s])
    /\ sess' = [sess EXCEPT ![s] = Release(Committed(@))]
    /\ call' = [call EXCEPT ![s] = Idle]
    /\ last' = Ended(s, "accept_offer", "ok")
    /\ UNCHANGED <<samples, trades, now, nFunds, funded, mode, SURGE, reader, quoted, listed, schedule, SIMULATOR, thread, starts>>

\* db.add_all([buyer, seller, offer, tr]); db.commit()
AcceptOfferCommit(s) ==
    /\ call[s].pc = "accept_commit"
    /\ users' = FlushUsers(sess[s])
    /\ offers' = FlushOffers(sess[s])
    /\ trades' = Append(trades, NewTrade(call[s]))
    /\ sess' = [sess EXCEPT ![s] = Release(Committed(@))]
    /\ call' = [call EXCEPT ![s] = Idle]
    /\ last' = Ended(s, "accept_offer", "ok")
    /\ UNCHANGED <<samples, now, nFunds, funded, mode, SURGE, reader, quoted, listed, schedule, SIMULATOR, thread, starts>>

(* ------------------------------------------------------------------ *)
(* Provider pricing (services.py:30-104, config.py:32-57)             *)
(* ------------------------------------------------------------------ *)

PROVIDER_NAMES == <<"DEI", "HERON">>

PROVIDER_BASE_PRICE_EUR_PER_KWH == Milli(220)

PROVIDER_SURGE_MULTIPLIER == Milli(1350)

\* The hours random.choice draws the surge hour from (inclusive range).
SurgeHours == 17 .. 21

\* current_hour_24: the hour of the day of ts (a host on UTC).
current_hour_24(ts) == (ts \div 3600) % 24

\* The schedule loop with the end hour of an interval counted in.
RECURSIVE ScheduleFromClosedEnd(_, _)
ScheduleFromClosedEnd(k, hour) ==
    IF k > Len(schedule) THEN Milli(1000)
    ELSE IF schedule[k][1] <= hour /\ hour <= schedule[k][2]
    THEN schedule[k][3]
    ELSE ScheduleFromClosedEnd(k + 1, hour)

\* The schedule loop without its break: every interval that holds the hour
\* assigns m, so the last one decides.
RECURSIVE ScheduleFromNoBreak(_, _)
ScheduleFromNoBreak(k, hour) ==
    IF k > Len(schedule) THEN Milli(1000)
    ELSE LET rest == ScheduleFromNoBreak(k + 1, hour)
         IN  IF \E j \in k + 1 .. Len(schedule) : schedule[j][1] <= hour /\ hour < schedule[j][2]
             THEN rest
             ELSE IF schedule[k][1] <= hour /\ hour < schedule[k][2]
             THEN schedule[k][3]
             ELSE rest

RECURSIVE ScheduleFrom(_, _)
\* The loop over the schedule from entry k on: the first interval that holds
\* the hour decides (break); 1.0 when none does.
ScheduleFrom(k, hour) ==
    IF k > Len(schedule) THEN Milli(1000)
    ELSE IF schedule[k][1] <= hour /\ hour < schedule[k][2]
    THEN schedule[k][3]
    ELSE ScheduleFrom(k + 1, hour)

\* provider_multiplier_now at ts, with surge hour surge in effect.
provider_multiplier_now(ts, surge) ==
    IF surge = current_hour_24(ts) THEN PROVIDER_SURGE_MULTIPLIER
    ELSE ScheduleFrom(1, current_hour_24(ts))

\* provider_price_eur_per_kwh_now: round(base * mult, 4)
provider_price_eur_per_kwh_now(ts, surge) ==
    Step * RoundDiv(PROVIDER_BASE_PRICE_EUR_PER_KWH * provider_multiplier_now(ts, surge),
                    Ticks * Step)

\* list_provider_market_items: one virtual item per provider name, with the
\* price and the multiplier its two calls of the pricing functions returned.
list_provider_market_items(price, mult) ==
    [k \in 1 .. Len(PROVIDER_NAMES) |->
        [kind |-> "provider", name |-> PROVIDER_NAMES[k], offer_id |-> 0, seller_id |-> 0,
         kwh_remaining |-> 0,
         current_multiplier |-> mult,
         price_eur_per_kwh |-> price]]

(* ------------------------------------------------------------------ *)
(* Listings (services.py:282-324)                                     *)
(* ------------------------------------------------------------------ *)

\* A filter on the status alone.
IsListedByStatus(row) == row.status = "active"

\* WHERE status = 'active' AND kwh_remaining > 0.0
IsListed(row) == row.status = "active" /\ row.remaining > 0

\* ORDER BY price_eur_per_kwh ASC, created_ts DESC (rows equal in both: by id)
Before(i, j) ==
    \/ offers[i].price < offers[j].price
    \/ offers[i].price = offers[j].price /\ offers[i].created > offers[j].created
    \/ offers[i].price = offers[j].price /\ offers[i].created = offers[j].created /\ i < j

RECURSIVE Ordered(_)
Ordered(ids) ==
    IF ids = {} THEN <<>>
    ELSE LET b == CHOOSE i \in ids : \A j \in ids \ {i} : Before(i, j)
         IN  <<b>> \o Ordered(ids \ {b})

\* list_active_household_offers: the ids of the rows returned.
list_active_household_offers(limit) ==
    LET all == Ordered({i \in 1 .. Len(offers) : IsListed(offers[i])})
    IN  SubSeq(all, 1, Min(limit, Len(all)))

\* A sort step that puts x before the items of its own price.
InsertBeforeEqual(sorted, x) ==
    LET k == Cardinality({i \in 1 .. Len(sorted) :
                             sorted[i].price_eur_per_kwh < x.price_eur_per_kwh})
    IN  SubSeq(sorted, 1, k) \o <<x>> \o SubSeq(sorted, k + 1, Len(sorted))

\* items.sort(key=price): x goes behind every item that is not dearer.
InsertByPrice(sorted, x) ==
    LET k == Cardinality({i \in 1 .. Len(sorted) :
                             sorted[i].price_eur_per_kwh <= x.price_eur_per_kwh})
    IN  SubSeq(sorted, 1, k) \o <<x>> \o SubSeq(sorted, k + 1, Len(sorted))

RECURSIVE SortByPrice(_)
SortByPrice(items) ==
    IF items = <<>> THEN <<>>
    ELSE InsertByPrice(SortByPrice(SubSeq(items, 1, Len(items) - 1)), items[Len(items)])

\* list_market_items called in a session with identity map m, the pricing
\* functions having returned price and mult: the rows come from the table,
\* the attributes of a row the session already holds from its object.
list_market_items(m, price, mult, limit_household) ==
    LET ids == list_active_household_offers(limit_household)
        household ==
            [k \in 1 .. Len(ids) |->
                [kind |-> "household", name |-> "", offer_id |-> ids[k],
                 seller_id |-> offers[ids[k]].seller,
                 kwh_remaining |-> IF ids[k] \in DOMAIN m.offers
                                   THEN m.offers[ids[k]].cur.remaining
                                   ELSE offers[ids[k]].remaining,
                 current_multiplier |-> 0,
                 price_eur_per_kwh |-> offers[ids[k]].price]]
    IN  SortByPrice(list_provider_market_items(price, mult) \o household)

\* The default limit of both listings.
ListLimit == 100

(* ------------------------------------------------------------------ *)
(* Pricing and listing calls, one thread per request                  *)
(* (services.py:30-104, 295-324)                                      *)
(* ------------------------------------------------------------------ *)

\* What the pricing and listing calls leave alone.
market == <<users, samples, offers, trades, now, sess, call, last, nFunds, funded, mode,
            schedule, SIMULATOR, thread, starts>>

\* A call of provider_price_eur_per_kwh_now(ts) ("price", ts in hour h) or of
\* list_market_items ("market", at the clock's hour) begins in thread r and
\* enters _init_surge_once: if _SURGE is not None: return.
QuoteStart(r, op, h) ==
    /\ reader[r].pc = "waiting"
    /\ op = "market" => h = current_hour_24(now)
    /\ reader' = [reader EXCEPT ![r] =
            [Waiting EXCEPT !.pc = IF SURGE # NoSurge THEN "price" ELSE "draw",
                            !.op = op, !.hour = h]]
    /\ UNCHANGED <<SURGE, quoted, listed>>
    /\ UNCHANGED market

\* chosen = random.choice(allowed_hours); _SURGE = SurgeWindow(hour=chosen, ...)
InitSurgeDraw(r) ==
    /\ reader[r].pc = "draw"
    /\ \E chosen \in SurgeHours : SURGE' = chosen
    /\ reader' = [reader EXCEPT ![r].pc = "price"]
    /\ UNCHANGED <<quoted, listed>>
    /\ UNCHANGED market

\* The rest of provider_price_eur_per_kwh_now: the hour (of ts, or of the
\* clock when the listing calls it without ts), the schedule, the look at
\* _SURGE, the rounding.  A "price" call returns; list_provider_market_items
\* goes on to its call of provider_multiplier_now.
QuotePrice(r) ==
    /\ reader[r].pc = "price"
    /\ LET ts    == IF reader[r].op = "price" THEN reader[r].hour * 3600 ELSE now
           price == provider_price_eur_per_kwh_now(ts, SURGE)
       IN  IF reader[r].op = "price"
           THEN /\ quoted' = [quoted EXCEPT ![reader[r].hour] = @ \cup {price}]
                /\ reader' = [reader EXCEPT ![r] = Waiting]
           ELSE /\ reader' = [reader EXCEPT ![r].pc = "mult", ![r].price = price]
                /\ UNCHANGED quoted
    /\ UNCHANGED <<SURGE, listed>>
    /\ UNCHANGED market

\* mult = provider_multiplier_now() (_SURGE is set by now), the provider
\* items, the household offers, the sort.
ListMarketReturn(r) ==
    /\ reader[r].pc = "mult"
    /\ listed' = listed \cup
          {list_market_items(SessionLocal, reader[r].price,
                             provider_multiplier_now(now, SURGE), ListLimit)}
    /\ reader' = [reader EXCEPT ![r] = Waiting]
    /\ UNCHANGED <<SURGE, quoted>>
    /\ UNCHANGED market

\* The offers table when the pricing and listing calls run: empty, or one
\* active offer of a producer.
MarketOffers ==
    {<<>>,
     <<[seller |-> 1, total |-> Milli(1000), remaining |-> Milli(1000),
        price |-> Milli(100), status |-> "active", created |-> 0]>>}

\* A process that has drawn no surge hour yet, at an hour asked about.
InitPricing ==
    /\ users = [u \in UserIds |-> [role |-> RoleOf[u], balance |-> 0]]
    /\ samples = <<[user |-> 1, ts |-> 0, prod |-> Milli(4500), cons |-> Milli(2000)]>>
    /\ offers \in MarketOffers
    /\ trades = <<>>
    /\ now \in {h * 3600 : h \in HourInputs}
    /\ sess = [s \in Sessions |-> SessionLocal]
    /\ call = [s \in Sessions |-> Idle]
    /\ last = NoCall
    /\ nFunds = 0
    /\ funded = [u \in UserIds |-> 0]
    /\ mode = "pricing"
    /\ SURGE = NoSurge
    /\ reader = [r \in Readers |-> Waiting]
    /\ quoted = [h \in HourInputs |-> {}]
    /\ listed = {}
    /\ schedule = PROVIDER_PRICE_SCHEDULE
    /\ SIMULATOR = NoThread
    /\ thread = [t \in SimThreads |-> Unborn]
    /\ starts = 0

\* Offers tables with prices that meet: two offers at the providers' evening
\* price 0.2640, the second one newer; and one offer at the surge price
\* 0.2970, older than a cheaper one.
ListingOffers ==
    {<<[seller |-> 1, total |-> Milli(1000), remaining |-> Milli(1000),
        price |-> Milli(264), status |-> "active", created |-> 0],
       [seller |-> 1, total |-> Milli(500), remaining |-> Milli(500),
        price |-> Milli(264), status |-> "active", created |-> 3600]>>,
     <<[seller |-> 1, total |-> Milli(1000), remaining |-> Milli(1000),
        price |-> Milli(297), status |-> "active", created |-> 0],
       [seller |-> 1, total |-> Milli(500), remaining |-> Milli(500),
        price |-> Milli(264), status |-> "active", created |-> 3600]>>}

\* A process that has drawn no surge hour yet, with one of these tables.
InitListing ==
    /\ users = [u \in UserIds |-> [role |-> RoleOf[u], balance |-> 0]]
    /\ samples = <<[user |-> 1, ts |-> 0, prod |-> Milli(4500), cons |-> Milli(2000)]>>
    /\ offers \in ListingOffers
    /\ trades = <<>>
    /\ now \in {h * 3600 : h \in HourInputs}
    /\ sess = [s \in Sessions |-> SessionLocal]
    /\ call = [s \in Sessions |-> Idle]
    /\ last = NoCall
    /\ nFunds = 0
    /\ funded = [u \in UserIds |-> 0]
    /\ mode = "listing"
    /\ SURGE = NoSurge
    /\ reader = [r \in Readers |-> Waiting]
    /\ quoted = [h \in HourInputs |-> {}]
    /\ listed = {}
    /\ schedule = PROVIDER_PRICE_SCHEDULE
    /\ SIMULATOR = NoThread
    /\ thread = [t \in SimThreads |-> Unborn]
    /\ starts = 0

\* A process configured with one of the schedules, no household offers.
InitSchedule ==
    /\ users = [u \in UserIds |-> [role |-> RoleOf[u], balance |-> 0]]
    /\ samples = <<>>
    /\ offers = <<>>
    /\ trades = <<>>
    /\ now \in {h * 3600 : h \in HourInputs}
    /\ sess = [s \in Sessions |-> SessionLocal]
    /\ call = [s \in Sessions |-> Idle]
    /\ last = NoCall
    /\ nFunds = 0
    /\ funded = [u \in UserIds |-> 0]
    /\ mode = "schedule"
    /\ SURGE = NoSurge
    /\ reader = [r \in Readers |-> Waiting]
    /\ quoted = [h \in HourInputs |-> {}]
    /\ listed = {}
    /\ schedule \in Schedules
    /\ SIMULATOR = NoThread
    /\ thread = [t \in SimThreads |-> Unborn]
    /\ starts = 0

NextPricing ==
    \/ \E r \in Readers, h \in HourInputs : QuoteStart(r, "price", h)
    \/ \E r \in Readers, h \in HourInputs : QuoteStart(r, "market", h)
    \/ \E r \in Readers : InitSurgeDraw(r)
    \/ \E r \in Readers : QuotePrice(r)
    \/ \E r \in Readers : ListMarketReturn(r)

\* The clock passes an hour boundary, up to the last hour asked about.
HourTurns ==
    /\ current_hour_24(now) < 18
    /\ now' = now + 3600
    /\ UNCHANGED <<users, samples, offers, trades, sess, call, last, nFunds, funded, mode,
                   SURGE, reader, quoted, listed, schedule, SIMULATOR, thread, starts>>

NextClock ==
    \/ NextPricing
    \/ HourTurns

(* ------------------------------------------------------------------ *)
(* Meter simulator (background.py)                                    *)
(* ------------------------------------------------------------------ *)

\* What the simulator and its lifecycle calls leave alone.
ledger == <<users, offers, trades, now, sess, call, last, nFunds, funded, mode,
            SURGE, reader, quoted, listed, schedule>>

\* db.query(User).filter(User.role != provider).order_by(User.id.asc()).all()
Households == SelectSeq([k \in UserIds |-> k], LAMBDA u : users[u].role # "provider")

\* The rows one user gets from _backfill_last_12h at time t: one every
\* step_minutes from t - 12 h up to t.
BackfillOf(u, t, step_minutes, r) ==
    [k \in 1 .. ((12 * 3600) \div (step_minutes * 60)) + 1 |->
        [user |-> u, ts |-> t - 12 * 3600 + (k - 1) * step_minutes * 60,
         prod |-> r[1], cons |-> r[2]]]

RECURSIVE BackfillFrom(_, _, _, _)
\* _backfill_last_12h: the rows of the users from place k on, in id order.
BackfillFrom(k, t, step_minutes, r) ==
    IF k > Len(Households) THEN <<>>
    ELSE BackfillOf(Households[k], t, step_minutes, r)
            \o BackfillFrom(k + 1, t, step_minutes, r)

\* The thread start_simulator creates next.
NextThread == CHOOSE t \in SimThreads :
                  /\ thread[t].pc = "unborn"
                  /\ \A j \in SimThreads : thread[j].pc = "unborn" => t <= j

\* start_simulator(): the backfill in a session of its own, and a new
\* MeterSimulator started if _SIMULATOR is None.
StartSimulator ==
    /\ starts < MaxStarts
    /\ SIMULATOR = NoThread => \E t \in SimThreads : thread[t].pc = "unborn"
    /\ starts' = starts + 1
    /\ IF ~SIMULATION_ENABLED
       THEN UNCHANGED <<samples, SIMULATOR, thread>>
       ELSE /\ \E r \in SimReadings : samples' = samples \o BackfillFrom(1, now, 10, r)
            /\ IF SIMULATOR = NoThread
               THEN /\ SIMULATOR' = NextThread
                    /\ thread' = [thread EXCEPT ![NextThread] = [Unborn EXCEPT !.pc = "check"]]
               ELSE UNCHANGED <<SIMULATOR, thread>>
    /\ UNCHANGED ledger

\* stop_simulator(): _SIMULATOR.stop(); _SIMULATOR = None.  The thread is not
\* joined.
StopSimulator ==
    /\ SIMULATOR # NoThread
    /\ thread' = [thread EXCEPT ![SIMULATOR].stop = TRUE]
    /\ SIMULATOR' = NoThread
    /\ UNCHANGED <<samples, starts>>
    /\ UNCHANGED ledger

\* run: while not self._stop.is_set(), then the head of tick: the clock, a
\* session, the users.
SimCheck(t) ==
    /\ thread[t].pc = "check"
    /\ IF thread[t].stop
       THEN thread' = [thread EXCEPT ![t].pc = "dead"]
       ELSE /\ thread[t].ticks < MaxTicks
            /\ thread' = [thread EXCEPT ![t].pc = IF Households = <<>> THEN "wait" ELSE "tick",
                                        ![t].todo = Households,
                                        ![t].ts = now,
                                        ![t].ticks = @ + 1]
    /\ UNCHANGED <<samples, SIMULATOR, starts>>
    /\ UNCHANGED ledger

\* tick: record_meter_sample for the next user; after the last one the
\* session is closed and run goes to self._stop.wait(self.interval).
SimWrite(t) ==
    /\ thread[t].pc = "tick"
    /\ \E r \in SimReadings :
          samples' = Append(samples, [user |-> Head(thread[t].todo), ts |-> thread[t].ts,
                                      prod |-> r[1], cons |-> r[2]])
    /\ thread' = [thread EXCEPT ![t].todo = Tail(@),
                                ![t].pc = IF Tail(thread[t].todo) = <<>> THEN "wait" ELSE "tick"]
    /\ UNCHANGED <<SIMULATOR, starts>>
    /\ UNCHANGED ledger

\* self._stop.wait(self.interval) returns: the interval is over, or the
\* event was set.
SimWake(t) ==
    /\ thread[t].pc = "wait"
    /\ thread' = [thread EXCEPT ![t].pc = "check"]
    /\ UNCHANGED <<samples, SIMULATOR, starts>>
    /\ UNCHANGED ledger

\* The process with simulation switched on, nothing started yet.
InitSim == InitDb /\ mode = "simulator"

NextSim ==
    \/ StartSimulator
    \/ StopSimulator
    \/ \E t \in SimThreads : SimCheck(t)
    \/ \E t \in SimThreads : SimWrite(t)
    \/ \E t \in SimThreads : SimWake(t)

(* ------------------------------------------------------------------ *)
(* Specifications                                                     *)
(* ------------------------------------------------------------------ *)

\* A service call begins in session s.
Begin(s) ==
    \/ \E u \in Funded, a \in AmountInputs : FundUserStart(s, u, a)
    \/ \E u \in MeteredIn(mode), r \in ReadingInputs, d \in StampsAhead(mode) :
          RecordMeterSample(s, u, r[1], r[2], now + d)
    \/ \E u \in Sellers, k \in KwhInputs, p \in PriceInputs : CreateOfferStart(s, u, k, p)
    \/ \E u \in Buyers, o \in 1 .. MaxOffers, k \in KwhInputs : AcceptOfferStart(s, u, o, k)

\* The call in flight in session s goes on.
Continue(s) ==
    \/ FundUserCommit(s)
    \/ CreateOfferCheck(s)
    \/ CreateOfferCommit(s)
    \/ AcceptOfferCheck(s)
    \/ AcceptOfferSettle(s)
    \/ AcceptOfferCommit(s)

Next ==
    \/ \E s \in Sessions : Begin(s)
    \/ \E s \in Sessions : Continue(s)
    \/ \E s \in Sessions : Close(s)
    \/ Tick

Spec == Init /\ [][Next]_vars

SpecSerial == InitSerial /\ [][Next]_vars

SpecCaller == InitCaller /\ [][Next]_vars

SpecMeter == InitMeter /\ [][Next]_vars

\* The pricing and listing calls of one process, threads overlapping.
SpecPricing == InitPricing /\ [][NextPricing]_vars

\* The pricing and listing calls while the clock runs.
SpecClock == InitPricing /\ [][NextClock]_vars

\* The simulator's lifecycle calls, one after the other, and its threads.
SpecSim == InitSim /\ [][NextSim]_vars

\* The pricing and listing calls over offers whose prices meet.
SpecListing == InitListing /\ [][NextPricing]_vars

\* The pricing and listing calls under each of the schedules, no offers.
SpecSchedule == InitSchedule /\ [][NextPricing]_vars

(* ------------------------------------------------------------------ *)
(* Properties                                                         *)
(* ------------------------------------------------------------------ *)

\* What a session holds changed and unwritten: object -> its value now.
Pending(m) ==
    [users  |-> [u \in DirtyUsers(m) |-> m.users[u].cur],
     offers |-> [i \in DirtyOffers(m) |-> m.offers[i].cur]]

NothingPending == [users |-> EmptyMap, offers |-> EmptyMap]

\* The ValueErrors of accept_offer's validation steps (services.py:332-354).
AcceptValidationErrors ==
    {"kWh must be positive", "Buyer not found", "Offer not available",
     "Cannot buy your own offer", "No remaining kWh in this offer", "Insufficient funds"}

\* A step of an accept_offer call that fails validation: its first step
\* (loading the buyer), or the step that raises the ValueError.
FailedValidationStep ==
    \/ last'.op = "accept_offer" /\ last'.out \in AcceptValidationErrors
    \/ \E s \in Sessions : call[s].pc = "idle" /\ call'[s].pc = "accept_offer"

\* C1: every step of an accept_offer call that fails one of its validation
\* checks leaves all balances, all offers (remaining and status), the trades
\* and the readings as they were, and leaves no change pending in any session.
C1_FailedValidationChangesNothing ==
    [][FailedValidationStep =>
          /\ users' = users
          /\ offers' = offers
          /\ trades' = trades
          /\ samples' = samples
          /\ \A s \in Sessions : Pending(sess'[s]) = Pending(sess[s])]_vars

\* C1 witness: a buyer who holds money, but less than the cost, was refused
\* on an offer that has energy left (Scenario D).
C1_Witness ==
    /\ last.op = "accept_offer"
    /\ last.out = "Insufficient funds"
    /\ users[2].balance > 0
    /\ \E i \in 1 .. Len(offers) : IsListed(offers[i])

\* C2: a call of accept_offer that raised, whatever the error, leaves no
\* change of a balance or of an offer pending in its session.
C2_RaiseLeavesNothingPending ==
    \A s \in Sessions :
        (last.s = s /\ last.op = "accept_offer" /\ last.out # "ok")
            => Pending(sess[s]) = NothingPending

\* Energy recorded in the trades of offer i.
TradedKwh(i) ==
    SumSeq([t \in 1 .. Len(trades) |-> IF trades[t].offer = i THEN trades[t].kwh ELSE 0])

\* C3: the energy recorded in the trades of an offer never exceeds the
\* offer's total, however the accept_offer calls on it overlap.
C3_NoOverselling ==
    \A i \in 1 .. Len(offers) : TradedKwh(i) <= offers[i].total

\* Money account b paid in its trades.
Spent(b) ==
    SumSeq([t \in 1 .. Len(trades) |-> IF trades[t].buyer = b THEN trades[t].total ELSE 0])

\* C4: an account that only buys holds what it was funded with minus the
\* costs of its trades, and never less than nothing, however its
\* accept_offer calls overlap.
C4_NoDoubleSpend ==
    \A b \in UserIds :
        (\A i \in 1 .. Len(offers) : offers[i].seller # b)
            => /\ users[b].balance >= 0
               /\ users[b].balance = funded[b] - Spent(b)

\* Every reading of account u is inside the window at the present time.
AllReadingsInWindow(u) ==
    \A k \in 1 .. Len(samples) :
        samples[k].user = u => samples[k].ts >= now - WindowHours * 3600

\* C5: while all readings of a seller are inside the 12 h window, the energy
\* reserved in the seller's active offers is at most the seller's windowed
\* surplus, however the create_offer calls of the seller overlap.
C5_NoOverReservation ==
    \A u \in UserIds :
        AllReadingsInWindow(u)
            => compute_reserved_surplus_kwh(u)
                  <= compute_surplus_last_hours(u, WindowHours, now)

\* C7: at all times, for every seller, the energy reserved in the seller's
\* active offers is at most the seller's 12 h windowed surplus at that time.
C7_ReservedWithinSurplus ==
    \A u \in UserIds :
        compute_reserved_surplus_kwh(u) <= compute_surplus_last_hours(u, WindowHours, now)

\* C6: every row of the offers table has 0 <= remaining <= total.
C6_RemainingWithinTotal ==
    \A i \in 1 .. Len(offers) :
        0 <= offers[i].remaining /\ offers[i].remaining <= offers[i].total

\* C6 witness: an offer partly filled by a trade.
C6_Witness ==
    \E i \in 1 .. Len(offers) :
        /\ 0 < offers[i].remaining
        /\ offers[i].remaining < offers[i].total
        /\ TradedKwh(i) > 0

C9_WholeFillSucceeds ==
    [][\A s \in Sessions :
          LET c == call[s]
          IN  /\ (/\ c.pc = "accept_seller"
                  /\ c.qty = sess[s].offers[c.offer].cur.remaining
                  /\ call'[s] # c)
                 => /\ call'[s].pc = "accept_commit"
                    /\ sess'[s].offers[c.offer].cur = [remaining |-> 0, status |-> "closed"]
              /\ (/\ c.pc = "accept_commit"
                  /\ sess[s].offers[c.offer].cur.remaining = 0
                  /\ call'[s] # c)
                 => /\ last' = Ended(s, "accept_offer", "ok")
                    /\ trades' = Append(trades, NewTrade(c))
                    /\ offers'[c.offer].remaining = 0
                    /\ offers'[c.offer].status = "closed"
                    /\ users'[c.user].balance = users[c.user].balance - c.cost
                    /\ users'[offers[c.offer].seller].balance
                          = users[offers[c.offer].seller].balance + c.cost]_vars

\* The list a list_market_items call made now in a session with identity map
\* m returns when the surge hour is g.
MarketNow(m, g) ==
    list_market_items(m, provider_price_eur_per_kwh_now(now, g),
                      provider_multiplier_now(now, g), ListLimit)

\* The offers a listing call made now would return: by
\* list_active_household_offers, or by list_market_items in any session and
\* whatever surge hour the process drew.
ListedNow ==
    {list_active_household_offers(ListLimit)[k] :
        k \in 1 .. Len(list_active_household_offers(ListLimit))}
    \cup UNION {
        {MarketNow(m, g)[k].offer_id :
            k \in {j \in 1 .. Len(MarketNow(m, g)) : MarketNow(m, g)[j].kind = "household"}} :
        m \in {sess[s] : s \in Sessions} \cup {SessionLocal}, g \in SurgeHours}

LeftToSell(c) == c.stored - compute_reserved_surplus_kwh(c.user)

\* C11: a create_offer call that asks for more than the seller's windowed
\* surplus minus the remaining of the seller's active offers ends with "Not
\* enough surplus to sell", stores no offer and changes nothing; and every
\* offer that is stored fits into what was left to sell.
C11_OverAskRefused ==
    [][\A s \in Sessions :
          LET c == call[s]
          IN  /\ (/\ c.pc = "create_reserved"
                  /\ c.kwh > LeftToSell(c)
                  /\ call'[s] # c)
                 => /\ last' = Ended(s, "create_offer", "Not enough surplus to sell")
                    /\ <<users, samples, offers, trades>>' = <<users, samples, offers, trades>>
                    /\ \A t \in Sessions : Pending(sess'[t]) = Pending(sess[t])
              /\ (/\ c.pc = "create_commit"
                  /\ Len(offers') = Len(offers) + 1)
                 => offers'[Len(offers')].total <= LeftToSell(c)]_vars

\* C11 witness: a seller with surplus and an active offer was refused a
\* further offer.
C11_Witness ==
    /\ last.op = "create_offer"
    /\ last.out = "Not enough surplus to sell"
    /\ \E i \in 1 .. Len(offers) :
          /\ offers[i].status = "active"
          /\ offers[i].remaining > 0
          /\ compute_surplus_last_hours(offers[i].seller, WindowHours, now) > 0

\* C12: the seller of every stored offer is an account with role producer
\* or both.
C12_SellersAreProducers ==
    \A i \in 1 .. Len(offers) :
        /\ offers[i].seller \in UserIds
        /\ users[offers[i].seller].role \in {"producer", "both"}

\* C12 witness: a consumer with surplus inside the window was refused an
\* offer.
C12_Witness ==
    /\ last.op = "create_offer"
    /\ last.out = "Only producers or both can create offers"
    /\ \E u \in UserIds :
          /\ users[u].role = "consumer"
          /\ compute_surplus_last_hours(u, WindowHours, now) > 0

\* C13: no trade's buyer is the seller of the offer the trade references.
C13_NoSelfTrade ==
    \A t \in 1 .. Len(trades) :
        trades[t].buyer # offers[trades[t].offer].seller

\* C13 witness: a seller who has sold energy was refused as buyer of an
\* offer of its own.
C13_Witness ==
    /\ last.op = "accept_offer"
    /\ last.out = "Cannot buy your own offer"
    /\ \E t \in 1 .. Len(trades) : users[offers[trades[t].offer].seller].balance > 0

\* C14: every account's balance is at least 0.
C14_BalancesNonNegative ==
    \A u \in UserIds : users[u].balance >= 0

\* C14 witness: a buyer who has paid for a trade and has money left was
\* refused a fill that costs more than is left.
C14_Witness ==
    /\ last.op = "accept_offer"
    /\ last.out = "Insufficient funds"
    /\ \E u \in UserIds :
          /\ Spent(u) > 0
          /\ users[u].balance > 0
          /\ users[u].balance < funded[u]

\* C15: a step that ends an accept_offer call with success appends exactly
\* one trade; every other step (a call that fails, any other operation)
\* leaves the trades as they are; so the trades stored stay as they were
\* stored, in every later state.
C15_TradesAppendOnly ==
    [][IF last'.op = "accept_offer" /\ last'.out = "ok"
       THEN Len(trades') = Len(trades) + 1 /\ SubSeq(trades', 1, Len(trades)) = trades
       ELSE trades' = trades]_vars

\* C15 witness: two trades are stored and a call of accept_offer has failed
\* after them.
C15_Witness ==
    /\ Len(trades) >= 2
    /\ last.op = "accept_offer"
    /\ last.out # "ok"

\* C16: once drawn, the surge hour never changes, and all the calls of
\* provider_price_eur_per_kwh_now for the same hour have returned one and
\* the same price, also when the first calls overlap.
C16_OnePricePerTs ==
    /\ [](\A h \in HourInputs : Cardinality(quoted[h]) <= 1)
    /\ [][SURGE # NoSurge => SURGE' = SURGE]_vars

\* The multiplier of the schedule interval [start, end) that holds the hour.
IntervalMultiplier(hour) ==
    LET k == CHOOSE i \in 1 .. Len(PROVIDER_PRICE_SCHEDULE) :
                 /\ PROVIDER_PRICE_SCHEDULE[i][1] <= hour
                 /\ hour < PROVIDER_PRICE_SCHEDULE[i][2]
    IN  PROVIDER_PRICE_SCHEDULE[k][3]

\* The multiplier the claim gives for the hour when the surge hour is g.
ClaimedMultiplier(hour, g) ==
    IF g = hour THEN PROVIDER_SURGE_MULTIPLIER ELSE IntervalMultiplier(hour)

\* Base price times the claimed multiplier, rounded to 4 decimals.
ClaimedPrice(hour, g) ==
    Step * RoundDiv(PROVIDER_BASE_PRICE_EUR_PER_KWH * ClaimedMultiplier(hour, g), Ticks * Step)

\* C17: the price a pricing call computes is the base price times the
\* multiplier of the schedule interval [start, end) of the hour asked about,
\* or times the surge multiplier when that hour is the surge hour, rounded
\* to 4 decimals (0.2640 at hour 18 when the surge hour is another one); the
\* multiplier a listing shows is that multiplier for the clock's hour.
C17_PriceFollowsSchedule ==
    [][\A r \in Readers :
          LET q == reader[r]
          IN  /\ (q.pc = "price" /\ reader'[r] # q)
                 => /\ q.op = "price" => ClaimedPrice(q.hour, SURGE) \in quoted'[q.hour]
                    /\ q.op = "price" => quoted'[q.hour] \ quoted[q.hour]
                                            \subseteq {ClaimedPrice(q.hour, SURGE)}
                    /\ q.op = "market" => reader'[r].price = ClaimedPrice(q.hour, SURGE)
                    /\ (q.hour = 18 /\ SURGE # 18)
                          => IF q.op = "price" THEN Milli(264) \in quoted'[18]
                             ELSE reader'[r].price = Milli(264)
              /\ (q.pc = "mult" /\ reader'[r] # q)
                 => \E l \in listed' :
                       \A k \in 1 .. Len(l) :
                          l[k].kind = "provider"
                             => l[k].current_multiplier
                                   = ClaimedMultiplier(current_hour_24(now), SURGE)]_vars

\* C17 witness: at hour 18, with another hour drawn as surge hour, the price
\* 0.2640 was returned; and at hour 17 the price of the interval [17, 22).
C17_Witness ==
    /\ SURGE \notin {17, 18, NoSurge}
    /\ quoted[18] = {Milli(264)}
    /\ quoted[17] = {Milli(264)}

\* A step of a list_market_items call of thread r.
ListingStep(r) ==
    /\ reader'[r] # reader[r]
    /\ reader[r].op = "market" \/ reader'[r].op = "market"

\* C18: no step of a list_market_items call changes an account, a reading,
\* an offer, a trade or the surge hour of the process, and all the listings
\* made of one state of the tables at one clock time are the same list.
C18_ListingReadOnly ==
    /\ [][(\E r \in Readers : ListingStep(r))
            => UNCHANGED <<users, samples, offers, trades, SURGE>>]_vars
    /\ [](Cardinality(listed) <= 1)

\* The windowed surplus as claimed: the readings of account u stamped within
\* [t - hours * 3600, t], each counting max(0, produced - consumed).
ClaimedSurplus(u, hours, t) ==
    Round4(SumSeq([k \in 1 .. Len(samples) |->
             IF /\ samples[k].user = u
                /\ samples[k].ts >= t - hours * 3600
                /\ samples[k].ts <= t
             THEN Max(0, samples[k].prod - samples[k].cons)
             ELSE 0]))

\* C19: the windowed surplus of every account counts exactly the readings
\* stamped within [now - 12 h, now]; a reading stamped later than now or
\* before the window counts for nothing.
C19_SurplusOfWindowOnly ==
    \A u \in UserIds :
        compute_surplus_last_hours(u, WindowHours, now) = ClaimedSurplus(u, WindowHours, now)

\* The step stores a trade of a successful accept_offer on offer i.
SettledOn(i) ==
    /\ last'.op = "accept_offer"
    /\ last'.out = "ok"
    /\ Len(trades') = Len(trades) + 1
    /\ trades'[Len(trades')].offer = i

\* C20: in every step, the remaining of an offer does not rise; remaining
\* and status change only in the step that stores a trade of a successful
\* accept_offer on that offer; and an offer that is not active changes no
\* more and is traded no more.
C20_RemainingOnlyFalls ==
    [][\A i \in 1 .. Len(offers) :
          /\ offers'[i].remaining <= offers[i].remaining
          /\ offers'[i] # offers[i] => SettledOn(i)
          /\ offers[i].status # "active"
                => offers'[i] = offers[i] /\ ~SettledOn(i)]_vars


\* A step in which a call of fund_user succeeds: its commit.
FundedStep(u) ==
    /\ last'.op = "fund_user"
    /\ last'.out = "ok"
    /\ call[last'.s].user = u
    /\ call[last'.s].amount > 0
    /\ users'[u].balance = users[u].balance + call[last'.s].amount

\* C21: a balance changes only in the step that ends a successful fund_user
\* on that account, by exactly the positive amount, or in the step that ends
\* a successful accept_offer; a fund_user call that raises changes no table;
\* create_offer and record_meter_sample leave every balance as it was.
C21_BalanceFrame ==
    [][/\ \A u \in UserIds :
             users'[u].balance # users[u].balance
                => \/ FundedStep(u)
                   \/ last'.op = "accept_offer" /\ last'.out = "ok"
       /\ (last'.op = "fund_user" /\ last'.out # "ok") => db' = db
       /\ last'.op \in {"create_offer", "record_meter_sample"}
             => \A u \in UserIds : users'[u].balance = users[u].balance]_vars


\* The schedule intervals [start, end) that hold the hour.
Matching(hour) ==
    {k \in 1 .. Len(schedule) : schedule[k][1] <= hour /\ hour < schedule[k][2]}

\* The first and the last of them in declaration order.
FirstMatching(hour) == CHOOSE k \in Matching(hour) : \A j \in Matching(hour) : k <= j

LastMatching(hour) == CHOOSE k \in Matching(hour) : \A j \in Matching(hour) : k >= j

\* Base price times a multiplier, rounded to 4 decimals.
PriceWith(mult) == Step * RoundDiv(PROVIDER_BASE_PRICE_EUR_PER_KWH * mult, Ticks * Step)

\* The multiplier of the last, and of the first, interval that holds the hour.
LastMultiplier(hour) == schedule[LastMatching(hour)][3]

FirstMultiplier(hour) == schedule[FirstMatching(hour)][3]

\* The multiplier of the interval that decides when several hold the hour.
Deciding(which, hour) ==
    IF which = "last" THEN LastMultiplier(hour) ELSE FirstMultiplier(hour)

\* Every pricing call that resolves to an hour other than the surge hour,
\* held by more than one schedule interval, works with the multiplier of the
\* deciding interval: the price it returns, and the multiplier a listing shows.
OverlapUses(which) ==
    \A r \in Readers :
        LET q == reader[r]
            h == current_hour_24(now)
        IN  /\ (/\ q.pc = "price" /\ reader'[r] # q
                /\ q.op = "price"
                /\ SURGE # q.hour /\ Cardinality(Matching(q.hour)) > 1)
               => PriceWith(Deciding(which, q.hour)) \in quoted'[q.hour]
            /\ (/\ q.pc = "price" /\ reader'[r] # q
                /\ q.op = "market"
                /\ SURGE # h /\ Cardinality(Matching(h)) > 1)
               => reader'[r].price = PriceWith(Deciding(which, h))
            /\ (/\ q.pc = "mult" /\ reader'[r] # q
                /\ SURGE # h /\ Cardinality(Matching(h)) > 1)
               => \A l \in listed' \ listed :
                     \A k \in 1 .. Len(l) :
                        l[k].kind = "provider"
                           => l[k].current_multiplier = Deciding(which, h)

\* C22: when more than one schedule interval holds the resolved hour,
\* provider_multiplier_now uses the multiplier of the last of them in
\* declaration order.
C22_LastMatchWins == [][OverlapUses("last")]_vars

\* C22 as the code has it: when more than one schedule interval holds the
\* resolved hour, provider_multiplier_now uses the multiplier of the first of
\* them in declaration order.
C22_FirstMatchWins == [][OverlapUses("first")]_vars

\* C22 witness: hour 18 lies in more than one interval, the first and the
\* last of them differ in their multiplier, another hour is the surge hour,
\* and the price returned for hour 18 is the one of the first interval.
C22_Witness ==
    /\ Cardinality(Matching(18)) > 1
    /\ FirstMultiplier(18) # LastMultiplier(18)
    /\ SURGE \notin {18, NoSurge}
    /\ quoted[18] = {PriceWith(FirstMultiplier(18))}


\* The commit of the accept_offer call of session s stores a trade of
\* min(requested, remaining) kWh at that quantity times the unit price,
\* rounded to 4 decimals, and lowers the offer's remaining by that quantity.
FillsExactly(s) ==
    LET c == call[s]
        o == offers[c.offer]
        t == trades'[Len(trades')]
    IN  (c.pc = "accept_commit" /\ call'[s] # c)
           => /\ last' = Ended(s, "accept_offer", "ok")
              /\ Len(trades') = Len(trades) + 1
              /\ t.kwh = Min(c.kwh, o.remaining)
              /\ t.total = Step * RoundDiv(t.kwh * o.price, Ticks * Step)
              /\ offers'[c.offer].remaining = o.remaining - t.kwh

\* The accept_offer call of session s that asked for more than the offer has
\* left, and passed the checks with the clamped quantity, is not rejected.
ClampedGoesOn(s) ==
    LET c == call[s]
    IN  (c.pc = "accept_seller" /\ c.qty < c.kwh /\ call'[s] # c)
           => call'[s].pc = "accept_commit"

\* C23: a successful accept_offer fills exactly min(requested kWh, offer
\* remaining): the trade's kwh is that quantity, its total that quantity
\* times the unit price rounded to 4 decimals, remaining drops by that
\* quantity; a request larger than remaining is clamped, not rejected.
C23_FillIsClamped ==
    [][\A s \in Sessions : FillsExactly(s) /\ ClampedGoesOn(s)]_vars


\* The place of offer i in what list_active_household_offers returns.
PlaceOf(i) ==
    CHOOSE k \in 1 .. Len(list_active_household_offers(ListLimit)) :
        list_active_household_offers(ListLimit)[k] = i

\* The place of a provider in settings.PROVIDER_NAMES.
PlaceOfName(name) == CHOOSE k \in 1 .. Len(PROVIDER_NAMES) : PROVIDER_NAMES[k] = name

\* List l is in ascending order of price, and items of one price are in the
\* order they were put together: providers (in the order of their names)
\* before household offers, household offers as list_active_household_offers
\* gives them, the newer one first.
SortedStable(l) ==
    \A i, j \in 1 .. Len(l) :
        i < j =>
            /\ l[i].price_eur_per_kwh <= l[j].price_eur_per_kwh
            /\ l[i].price_eur_per_kwh = l[j].price_eur_per_kwh
                  => /\ ~(l[i].kind = "household" /\ l[j].kind = "provider")
                     /\ (l[i].kind = "provider" /\ l[j].kind = "provider")
                           => PlaceOfName(l[i].name) < PlaceOfName(l[j].name)
                     /\ (l[i].kind = "household" /\ l[j].kind = "household")
                           => /\ PlaceOf(l[i].offer_id) < PlaceOf(l[j].offer_id)
                              /\ offers[l[i].offer_id].created
                                    >= offers[l[j].offer_id].created

\* C24: every list list_market_items returns is sorted ascending by unit
\* price, and stably: among items of equal price every provider item comes
\* before every household offer, and household offers keep the order of
\* list_active_household_offers (newer first).
C24_SortedStable == \A l \in listed : SortedStable(l)

\* C24 witness: a list was returned in which a provider item and a household
\* offer have one price, and so have two household offers of different age.
C24_Witness ==
    \E l \in listed :
        /\ \E i, j \in 1 .. Len(l) :
              /\ l[i].kind = "provider" /\ l[j].kind = "household"
              /\ l[i].price_eur_per_kwh = l[j].price_eur_per_kwh
        /\ \E i, j \in 1 .. Len(l) :
              /\ i < j
              /\ l[i].kind = "household" /\ l[j].kind = "household"
              /\ l[i].price_eur_per_kwh = l[j].price_eur_per_kwh
              /\ offers[l[i].offer_id].created > offers[l[j].offer_id].created


\* Thread t is inside a tick.
InTick(t) == thread[t].pc = "tick"

\* Thread t writes a reading in this step.
Writes(t) == thread'[t] # thread[t] /\ Len(samples') = Len(samples) + 1

\* C25: whatever start_simulator and stop_simulator calls were made, at most
\* one MeterSimulator is inside a tick; a start_simulator call made while a
\* simulator is running creates no thread; and a thread that was stopped
\* writes no reading once a thread created after it exists.
C25_OneSimulator ==
    /\ [](Cardinality({t \in SimThreads : InTick(t)}) <= 1)
    /\ [][(starts' # starts /\ SIMULATOR # NoThread) => thread' = thread]_vars
    /\ [][\A t \in SimThreads :
             (thread[t].stop /\ Writes(t))
                => \A j \in SimThreads : j > t => thread[j].pc = "unborn"]_vars


\* C26: for every offer, at all times, with calls one at a time or
\* overlapping, the energy recorded in the trades of the offer is the
\* offer's total minus its remaining.
C26_TradesMatchRemaining ==
    \A i \in 1 .. Len(offers) : TradedKwh(i) = offers[i].total - offers[i].remaining

\* The money in all accounts, and the money paid in by fund_user calls.
TotalBalance == SumSeq([u \in UserIds |-> users[u].balance])

TotalFunded == SumSeq([u \in UserIds |-> funded[u]])

\* C27: at all times, with calls one at a time or overlapping, the balances
\* of all accounts add up to the amounts of the successful fund_user calls.
C27_MoneyConserved == TotalBalance = TotalFunded


\* C28: in every list returned, every provider item's price is the base
\* price times the item's own current_multiplier, rounded to 4 decimals, also
\* when the clock passes an hour boundary during the call.
C28_ItemSelfConsistent ==
    \A l \in listed :
        \A k \in 1 .. Len(l) :
            l[k].kind = "provider"
                => l[k].price_eur_per_kwh = PriceWith(l[k].current_multiplier)

============================================================================
